---- MODULE Spec2Model ----
(***************************************************************************)
(* Model of the Synapz chat proxy: the /voice-chat and /stream-chat        *)
(* request handlers, the session resolver (findOrCreateSession), the       *)
(* transcript logger (createMessageRecord) and the streaming relay, over   *)
(* an external record store shared by all in-flight requests.              *)
(*                                                                         *)
(* Every await of the handlers is a step boundary: a handler runs from one *)
(* await to the next atomically (single-threaded event loop), and handlers *)
(* of different requests interleave at the awaits.                         *)
(*                                                                         *)
(* Text is a sequence of atoms.  The atoms stand for the pieces of the     *)
(* byte stream the relay's code tells apart:                               *)
(*   "NL"   a newline            "SP"   a blank                            *)
(*   "DATA" the text 'data: '    "DONE" the text '[DONE]'                  *)
(*   "LB"   {"choices":[{"delta":{"content":"                              *)
(*   "RB"   "}}]}                                                          *)
(*   "NOC"  {"choices":[{"delta":{}}]}   (an object with no content)       *)
(*   "A","B" ordinary characters, "X" a character that is not JSON         *)
(*   "STREAM_DONE" the text '[STREAM_DONE]'                                *)
(***************************************************************************)
EXTENDS Integers, Sequences, FiniteSets, TLC

\* ---------------------------------------------------------------- bounds
MaxReqs == 2
MaxFrames == 3

Reqs == 1..MaxReqs

\* ------------------------------------------------------- optional values
\* A JavaScript value that may be undefined: {} is undefined, {v} is v.
Undefined == {}
Some(v) == {v}
Get(o) == CHOOSE v \in o : TRUE

\* ------------------------------------------------------------ HTTP codes
OK200 == 200
BadRequest400 == 400
ServerError500 == 500

\* ------------------------------------------------------------------ text
IsWS(a) == a \in {"NL", "SP"}

\* String.prototype.includes('[DONE]')
Includes(s, a) == \E i \in 1..Len(s) : s[i] = a

\* String.prototype.trim(): drop leading and trailing white space
RECURSIVE TrimLeft(_)
TrimLeft(s) == IF s # <<>> /\ IsWS(s[1]) THEN TrimLeft(Tail(s)) ELSE s

RECURSIVE TrimRight(_)
TrimRight(s) ==
  IF s # <<>> /\ IsWS(s[Len(s)]) THEN TrimRight(SubSeq(s, 1, Len(s) - 1)) ELSE s

Trim(s) == TrimRight(TrimLeft(s))

\* chunk.toString().split('\n\n'): cut at each non-overlapping "\n\n", left
\* to right; the pieces between the cuts, empty pieces included.
FirstSep(s) ==
  LET hits == {i \in 1..(Len(s) - 1) : s[i] = "NL" /\ s[i + 1] = "NL"}
  IN  IF hits = {} THEN 0 ELSE CHOOSE i \in hits : \A j \in hits : i <= j

RECURSIVE Split(_)
Split(s) ==
  LET i == FirstSep(s)
  IN  IF i = 0 THEN <<s>>
      ELSE <<SubSeq(s, 1, i - 1)>> \o Split(SubSeq(s, i + 2, Len(s)))

\* payload.replace(/^data: /, ''): only a leading 'data: ' is removed
StripDataPrefix(s) == IF s # <<>> /\ s[1] = "DATA" THEN Tail(s) ELSE s

\* Characters that may stand unescaped inside a JSON string.
StringChars == {"A", "B", "SP", "DONE", "DATA", "STREAM_DONE"}

\* JSON.parse followed by dataObj.choices?.[0]?.delta?.content.
\* ok = FALSE: JSON.parse threw.  content = Undefined: no such field.
ParseContent(s) ==
  LET t == Trim(s)
  IN  IF t = <<"NOC">> THEN [ok |-> TRUE, content |-> Undefined]
      ELSE IF /\ Len(t) >= 2
              /\ t[1] = "LB"
              /\ t[Len(t)] = "RB"
              /\ \A i \in 2..(Len(t) - 1) : t[i] \in StringChars
           THEN [ok |-> TRUE, content |-> Some(SubSeq(t, 2, Len(t) - 1))]
           ELSE [ok |-> FALSE, content |-> Undefined]

\* if (content): undefined and the empty string are falsy
Truthy(o) == o # Undefined /\ Get(o) # <<>>

\* The body of payloads.forEach for one payload: the fragment it forwards,
\* as a list of zero or one fragments.
Forwarded(payload) ==
  IF Includes(payload, "DONE") THEN <<>>
  ELSE IF Trim(payload) = <<>> THEN <<>>
  ELSE LET p == ParseContent(StripDataPrefix(payload))
       IN  IF p.ok /\ Truthy(p.content) THEN <<Get(p.content)>> ELSE <<>>

\* payloads.forEach over one chunk: the fragments forwarded, in order.
RECURSIVE ForwardedAll(_)
ForwardedAll(payloads) ==
  IF payloads = <<>> THEN <<>>
  ELSE Forwarded(Head(payloads)) \o ForwardedAll(Tail(payloads))

OnChunk(chunk) == ForwardedAll(Split(chunk))

\* res.write(`data: ${content}\n\n`)
DataFrame(content) == <<"DATA">> \o content \o <<"NL", "NL">>

\* 'data: [STREAM_DONE]\n\n'
StreamDoneFrame == <<"DATA", "STREAM_DONE", "NL", "NL">>

RECURSIVE Flatten(_)
Flatten(ss) == IF ss = <<>> THEN <<>> ELSE Head(ss) \o Flatten(Tail(ss))

RECURSIVE MapDataFrame(_)
MapDataFrame(cs) ==
  IF cs = <<>> THEN <<>> ELSE <<DataFrame(Head(cs))>> \o MapDataFrame(Tail(cs))

\* ------------------------------------------------------- upstream frames
\* One event of the completion API's stream, without its "\n\n" terminator.
DeltaFrame(content) == <<"DATA", "LB">> \o content \o <<"RB">>
SentinelFrame == <<"DATA", "DONE">>
NoContentFrame == <<"DATA", "NOC">>
MalformedFrame == <<"DATA", "LB", "X">>

Contents == {<<"A">>, <<"B">>, <<"DONE">>, <<>>}
FrameSet ==
  {DeltaFrame(c) : c \in Contents}
    \cup {SentinelFrame, NoContentFrame, MalformedFrame}

RECURSIVE SeqsUpTo(_, _)
SeqsUpTo(S, n) ==
  IF n = 0 THEN {<<>>}
  ELSE LET shorter == SeqsUpTo(S, n - 1)
       IN  shorter \cup {Append(q, x) : q \in shorter, x \in S}

\* The bytes of a frame sequence on the wire.
RECURSIVE Wire(_)
Wire(fs) ==
  IF fs = <<>> THEN <<>> ELSE Head(fs) \o <<"NL", "NL">> \o Wire(Tail(fs))

\* The streams a request sees: one short answer where the requests are
\* interleaved, every frame sequence where the relay is examined.
FlowStreams == {<<DeltaFrame(<<"A">>)>>}
RelayStreams == SeqsUpTo(FrameSet, MaxFrames) \ {<<>>}

\* ---------------------------------------------------------------- inputs
Handlers == {"voice", "streamLog", "streamNoLog"}
StreamHandlers == {"streamLog", "streamNoLog"}

StakeholderIDs == {Undefined, Some("s1")}
ProjectIDs == {Some("p1"), Some("p2")}
UserMessages == {Undefined, Some(<<>>), Some(<<"A">>)}

Bodies ==
  [stakeholderID : StakeholderIDs, projectID : ProjectIDs,
   userMessage : UserMessages]
RelayBodies ==
  [stakeholderID : {Some("s1")}, projectID : {Some("p1")},
   userMessage : {Undefined, Some(<<"A">>)}]

\* completion.data.choices[0].message.content of a non-streaming answer
AiResponses == {<<"B">>}

\* ----------------------------------------------------------------- state
VARIABLES
  sessions,       \* table interview_sessions, in creation order; id = index
  messages,       \* table interview_messages, in creation order
  handler,        \* per request: the route handler that serves it
  body,           \* per request: req.body
  pc,             \* per request: the await the handler is suspended at
  sessionId,      \* per request: const sessionId (0 before it is bound)
  aiResponse,     \* per request: const aiResponse of /voice-chat
  aiResponseFull, \* per request: let aiResponseFull of /stream-chat
  status,         \* per request: status line sent (0: none yet)
  resJson,        \* per request: body sent by res.json / res.send
  out,            \* per request: the res.write calls, in order
  nEnd,           \* per request: how often the response was ended
  upstream,       \* per request: bytes completion.data has yet to deliver
  upState,        \* per request: "none", "open", "ended", "errored"
  log,            \* per request: the external calls and their outcomes
  frames,         \* per request: the frame sequence the upstream sends
  cutInFrame,     \* per request: a chunk so far ended inside a frame
  ttsResponse,    \* per request: status of the speech API's answer, 0 if none
  overlapped,     \* per request: another resolve was in flight during its own
  callStore,      \* per request: the sessions table when its resolve began
  msgBy           \* for each message record, the request that created it

vars ==
  <<sessions, messages, handler, body, pc, sessionId, aiResponse,
    aiResponseFull, status, resJson, out, nEnd, upstream, upState, log,
    frames, cutInFrame, ttsResponse, overlapped, callStore, msgBy>>

NoBody == [stakeholderID |-> Undefined, projectID |-> Undefined,
           userMessage |-> Undefined]
NoJson == [kind |-> "none", aiResponse |-> <<>>]

Init ==
  /\ sessions = <<>>
  /\ messages = <<>>
  /\ handler = [r \in Reqs |-> "none"]
  /\ body = [r \in Reqs |-> NoBody]
  /\ pc = [r \in Reqs |-> "idle"]
  /\ sessionId = [r \in Reqs |-> 0]
  /\ aiResponse = [r \in Reqs |-> <<>>]
  /\ aiResponseFull = [r \in Reqs |-> <<>>]
  /\ status = [r \in Reqs |-> 0]
  /\ resJson = [r \in Reqs |-> NoJson]
  /\ out = [r \in Reqs |-> <<>>]
  /\ nEnd = [r \in Reqs |-> 0]
  /\ upstream = [r \in Reqs |-> <<>>]
  /\ upState = [r \in Reqs |-> "none"]
  /\ log = [r \in Reqs |-> <<>>]
  /\ frames = [r \in Reqs |-> <<>>]
  /\ cutInFrame = [r \in Reqs |-> FALSE]
  /\ ttsResponse = [r \in Reqs |-> 0]
  /\ overlapped = [r \in Reqs |-> FALSE]
  /\ callStore = [r \in Reqs |-> <<>>]
  /\ msgBy = <<>>

\* ------------------------------------------------------------ the store
\* `${stakeholderID}` inside the filter formula: undefined prints as text.
Interpolate(o) == IF o = Undefined THEN "undefined" ELSE Get(o)

\* The value a formula reads from a cell: an empty cell reads as "".
CellText(o) == IF o = Undefined THEN "" ELSE Get(o)

\* AND({Stakeholder} = "...", {ProjectID} = "...")
FilterMatches(rec, stakeholderID, projectID) ==
  /\ CellText(rec.Stakeholder) = Interpolate(stakeholderID)
  /\ CellText(rec.ProjectID) = Interpolate(projectID)

\* A filter that no record satisfies (a misspelt field name).
MatchingNever(tbl, stakeholderID, projectID) == {}

\* The ids select(...) may return a record of.
Matching(tbl, stakeholderID, projectID) ==
  {i \in 1..Len(tbl) : FilterMatches(tbl[i], stakeholderID, projectID)}

\* The new record with the two ids in each other's field.
NewSessionSwapped(stakeholderID, projectID) ==
  [Stakeholder |-> projectID, ProjectID |-> stakeholderID,
   Session_Status |-> "In Progress"]

\* base('interview_sessions').create({...}); an undefined field is left out
\* of the request, so its cell stays empty.
NewSession(stakeholderID, projectID) ==
  [Stakeholder |-> stakeholderID, ProjectID |-> projectID,
   Session_Status |-> "In Progress"]

\* A store that keeps one record per pair: a create for a pair it already
\* holds adds nothing.
CreateSessionUnique(tbl, stakeholderID, projectID) ==
  IF \E i \in 1..Len(tbl) : tbl[i] = NewSession(stakeholderID, projectID)
  THEN tbl
  ELSE Append(tbl, NewSession(stakeholderID, projectID))

\* Variant: opening a session closes the sessions opened before it.
CreateSessionClosingOlder(tbl, stakeholderID, projectID) ==
  Append([i \in 1..Len(tbl) |->
            [tbl[i] EXCEPT !.Session_Status = "Completed"]],
         NewSession(stakeholderID, projectID))

CreateSession(tbl, stakeholderID, projectID) ==
  Append(tbl, NewSession(stakeholderID, projectID))

\* base('interview_messages').create({...})
\* Variant: a table that lists its newest record first.
CreateMessageNewestFirst(tbl, sid, sender, text) ==
  <<[interview_session |-> <<sid>>, Sender |-> sender,
     Message_text |-> text]>> \o tbl

\* Variant: the session id is kept in one place shared by all requests, so
\* a message is linked to the session resolved last.
CreateMessageSharedSession(tbl, sid, sender, text) ==
  Append(tbl, [interview_session |-> <<Len(sessions)>>, Sender |-> sender,
               Message_text |-> text])

CreateMessage(tbl, sid, sender, text) ==
  Append(tbl, [interview_session |-> <<sid>>, Sender |-> sender,
               Message_text |-> text])

\* ------------------------------------------------------------- responses
\* How often e occurs in the sequence q.
Count(q, e) == Cardinality({i \in 1..Len(q) : q[i] = e})

Logged(r, events) == log' = [log EXCEPT ![r] = @ \o events]

\* res.status(code).json({error}) / res.status(code).send(text)
RespondError(r, code) ==
  /\ status' = [status EXCEPT ![r] = code]
  /\ resJson' = [resJson EXCEPT ![r] = [kind |-> "error", aiResponse |-> <<>>]]
  /\ nEnd' = [nEnd EXCEPT ![r] = @ + 1]
  /\ pc' = [pc EXCEPT ![r] = "done"]

\* The catch block of a handler whose headers are not flushed yet.
Catch500(r) == RespondError(r, ServerError500)

\* The catch block of /stream-chat after res.flushHeaders(): res.send sets a
\* header, which throws once the headers are sent; the handler's promise
\* rejects and nothing ends the response.
CatchAfterFlush(r) ==
  /\ pc' = [pc EXCEPT ![r] = "hung"]
  /\ UNCHANGED <<status, resJson, nEnd>>

InResolve(q) == pc[q] \in {"query", "sessCreate"}

\* if (!userMessage), written as if (userMessage === undefined)
NoUserMessageStrict(b) == b.userMessage = Undefined

\* if (!userMessage): the field is absent or the empty string
NoUserMessage(b) == ~Truthy(b.userMessage)

\* ---------------------------------------------------------------- actions
\* A request arrives: the handler runs up to its first await.
Receive(r, H, B) ==
  /\ pc[r] = "idle"
  /\ \E h \in H, b \in B :
       /\ handler' = [handler EXCEPT ![r] = h]
       /\ body' = [body EXCEPT ![r] = b]
       /\ IF NoUserMessage(b)
          THEN /\ RespondError(r, BadRequest400)
               /\ UNCHANGED <<log, overlapped, callStore>>
          ELSE IF h = "streamNoLog"
          THEN \* res.set, res.flushHeaders, openai.createChatCompletion
               /\ status' = [status EXCEPT ![r] = OK200]
               /\ Logged(r, <<"complete">>)
               /\ pc' = [pc EXCEPT ![r] = "completion"]
               /\ UNCHANGED <<resJson, nEnd, overlapped, callStore>>
          ELSE \* findOrCreateSession: the select is issued
               /\ Logged(r, <<"select">>)
               /\ pc' = [pc EXCEPT ![r] = "query"]
               /\ overlapped' =
                    [q \in Reqs |->
                       IF q = r THEN \E o \in Reqs \ {r} : InResolve(o)
                       ELSE overlapped[q] \/ InResolve(q)]
               /\ callStore' = [callStore EXCEPT ![r] = sessions]
               /\ UNCHANGED <<status, resJson, nEnd>>
  /\ UNCHANGED <<sessions, messages, sessionId, aiResponse, aiResponseFull,
                 out, upstream, upState, frames, cutInFrame, ttsResponse,
                 msgBy>>

\* firstPage() resolves: a match is returned, or the create is issued.
SelectOk(r) ==
  /\ pc[r] = "query"
  /\ LET found == Matching(sessions, body[r].stakeholderID, body[r].projectID)
     IN  IF found # {}
         THEN \E i \in found :
                /\ sessionId' = [sessionId EXCEPT ![r] = i]
                /\ Logged(r, <<"selectOk", "createUser">>)
                /\ pc' = [pc EXCEPT ![r] = "userMsg"]
                /\ UNCHANGED <<overlapped, callStore>>
         ELSE /\ Logged(r, <<"selectOk", "createSession">>)
              /\ pc' = [pc EXCEPT ![r] = "sessCreate"]
              /\ UNCHANGED <<sessionId, overlapped, callStore>>
  /\ UNCHANGED <<sessions, messages, handler, body, aiResponse,
                 aiResponseFull, status, resJson, out, nEnd, upstream,
                 upState, frames, cutInFrame, ttsResponse, msgBy>>

SelectFail(r) ==
  /\ pc[r] = "query"
  /\ Logged(r, <<"selectFail">>)
  /\ Catch500(r)
  /\ UNCHANGED <<sessions, messages, handler, body, sessionId, aiResponse,
                 aiResponseFull, out, upstream, upState, frames, cutInFrame,
                 ttsResponse, msgBy>>
  /\ UNCHANGED <<overlapped, callStore>>

\* The session create resolves; createMessageRecord('User') is issued.
CreateSessionOk(r) ==
  /\ pc[r] = "sessCreate"
  /\ sessions' =
       CreateSession(sessions, body[r].stakeholderID, body[r].projectID)
  /\ sessionId' = [sessionId EXCEPT ![r] = Len(sessions')]
  /\ Logged(r, <<"createSessionOk", "createUser">>)
  /\ pc' = [pc EXCEPT ![r] = "userMsg"]
  /\ UNCHANGED <<messages, handler, body, aiResponse, aiResponseFull, status,
                 resJson, out, nEnd, upstream, upState, frames, cutInFrame,
                 ttsResponse, msgBy>>
  /\ UNCHANGED <<overlapped, callStore>>

CreateSessionFail(r) ==
  /\ pc[r] = "sessCreate"
  /\ Logged(r, <<"createSessionFail">>)
  /\ Catch500(r)
  /\ UNCHANGED <<sessions, messages, handler, body, sessionId, aiResponse,
                 aiResponseFull, out, upstream, upState, frames, cutInFrame,
                 ttsResponse, msgBy>>
  /\ UNCHANGED <<overlapped, callStore>>

\* The 'User' message create resolves; the completion call is issued
\* (on /stream-chat after the event-stream headers are flushed).
CreateUserOk(r) ==
  /\ pc[r] = "userMsg"
  /\ messages' =
       CreateMessage(messages, sessionId[r], "User", Get(body[r].userMessage))
  /\ msgBy' = Append(msgBy, r)
  /\ Logged(r, <<"createUserOk", "complete">>)
  /\ pc' = [pc EXCEPT ![r] = "completion"]
  /\ status' = [status EXCEPT ![r] =
                  IF handler[r] = "streamLog" THEN OK200 ELSE @]
  /\ UNCHANGED <<sessions, handler, body, sessionId, aiResponse,
                 aiResponseFull, resJson, out, nEnd, upstream, upState,
                 frames, cutInFrame, ttsResponse, overlapped, callStore>>

\* Logging made best-effort: the failure is swallowed and the completion
\* call is issued all the same.
CreateUserFailContinue(r) ==
  /\ pc[r] = "userMsg"
  /\ Logged(r, <<"createUserFail", "complete">>)
  /\ pc' = [pc EXCEPT ![r] = "completion"]
  /\ status' = [status EXCEPT ![r] =
                  IF handler[r] = "streamLog" THEN OK200 ELSE @]
  /\ UNCHANGED <<sessions, messages, handler, body, sessionId, aiResponse,
                 aiResponseFull, resJson, out, nEnd, upstream, upState,
                 frames, cutInFrame, ttsResponse, overlapped, callStore,
                 msgBy>>

CreateUserFail(r) ==
  /\ pc[r] = "userMsg"
  /\ Logged(r, <<"createUserFail">>)
  /\ Catch500(r)
  /\ UNCHANGED <<sessions, messages, handler, body, sessionId, aiResponse,
                 aiResponseFull, out, upstream, upState, frames, cutInFrame,
                 ttsResponse, overlapped, callStore, msgBy>>

\* /voice-chat: the completion resolves; createMessageRecord('AI') is issued.
VoiceCompleteOk(r) ==
  /\ pc[r] = "completion"
  /\ handler[r] = "voice"
  /\ \E a \in AiResponses : aiResponse' = [aiResponse EXCEPT ![r] = a]
  /\ Logged(r, <<"completeOk", "createAI">>)
  /\ pc' = [pc EXCEPT ![r] = "aiMsg"]
  /\ UNCHANGED <<sessions, messages, handler, body, sessionId, aiResponseFull,
                 status, resJson, out, nEnd, upstream, upState, frames,
                 cutInFrame, ttsResponse, overlapped, callStore, msgBy>>

\* The failed completion call issued once more instead of answering 500.
VoiceCompleteFailRetry(r) ==
  /\ pc[r] = "completion"
  /\ handler[r] = "voice"
  /\ Count(log[r], "complete") = 1
  /\ Logged(r, <<"completeFail", "complete">>)
  /\ UNCHANGED <<sessions, messages, handler, body, pc, sessionId, aiResponse,
                 aiResponseFull, status, resJson, out, nEnd, upstream,
                 upState, frames, cutInFrame, ttsResponse, overlapped,
                 callStore, msgBy>>

\* /voice-chat: the completion rejects (non-success status or transport
\* failure), or resolves with no choices so that reading choices[0] throws.
VoiceCompleteFail(r) ==
  /\ pc[r] = "completion"
  /\ handler[r] = "voice"
  /\ \E e \in {"completeFail", "completeNoChoices"} : Logged(r, <<e>>)
  /\ Catch500(r)
  /\ UNCHANGED <<sessions, messages, handler, body, sessionId, aiResponse,
                 aiResponseFull, out, upstream, upState, frames, cutInFrame,
                 ttsResponse, overlapped, callStore, msgBy>>

\* /voice-chat: the 'AI' message create resolves; res.json({aiResponse}).
VoiceCreateAIOk(r) ==
  /\ pc[r] = "aiMsg"
  /\ messages' = CreateMessage(messages, sessionId[r], "AI", aiResponse[r])
  /\ msgBy' = Append(msgBy, r)
  /\ Logged(r, <<"createAIOk">>)
  /\ status' = [status EXCEPT ![r] = OK200]
  /\ resJson' = [resJson EXCEPT ![r] =
                   [kind |-> "aiResponse", aiResponse |-> aiResponse[r]]]
  /\ nEnd' = [nEnd EXCEPT ![r] = @ + 1]
  /\ pc' = [pc EXCEPT ![r] = "done"]
  /\ UNCHANGED <<sessions, handler, body, sessionId, aiResponse,
                 aiResponseFull, out, upstream, upState, frames, cutInFrame,
                 ttsResponse, overlapped, callStore>>

\* The outbound log write made best-effort: the answer is returned although
\* the 'AI' message was not stored.
VoiceCreateAIFailBestEffort(r) ==
  /\ pc[r] = "aiMsg"
  /\ Logged(r, <<"createAIFail">>)
  /\ status' = [status EXCEPT ![r] = OK200]
  /\ resJson' = [resJson EXCEPT ![r] =
                   [kind |-> "aiResponse", aiResponse |-> aiResponse[r]]]
  /\ nEnd' = [nEnd EXCEPT ![r] = @ + 1]
  /\ pc' = [pc EXCEPT ![r] = "done"]
  /\ UNCHANGED <<sessions, messages, handler, body, sessionId, aiResponse,
                 aiResponseFull, out, upstream, upState, frames, cutInFrame,
                 ttsResponse, overlapped, callStore, msgBy>>

VoiceCreateAIFail(r) ==
  /\ pc[r] = "aiMsg"
  /\ Logged(r, <<"createAIFail">>)
  /\ Catch500(r)
  /\ UNCHANGED <<sessions, messages, handler, body, sessionId, aiResponse,
                 aiResponseFull, out, upstream, upState, frames, cutInFrame,
                 ttsResponse, overlapped, callStore, msgBy>>

\* /stream-chat: the completion resolves with a stream; the 'data', 'end'
\* and 'error' listeners are attached.
StreamCompleteOk(r, S) ==
  /\ pc[r] = "completion"
  /\ handler[r] \in StreamHandlers
  /\ \E fs \in S :
       /\ frames' = [frames EXCEPT ![r] = fs]
       /\ upstream' = [upstream EXCEPT ![r] = Wire(fs)]
  /\ upState' = [upState EXCEPT ![r] = "open"]
  /\ Logged(r, <<"completeOk">>)
  /\ pc' = [pc EXCEPT ![r] = "streaming"]
  /\ UNCHANGED <<sessions, messages, handler, body, sessionId, aiResponse,
                 aiResponseFull, status, resJson, out, nEnd, cutInFrame,
                 ttsResponse, overlapped, callStore, msgBy>>

\* /stream-chat: the completion rejects after the headers were flushed.
StreamCompleteFail(r) ==
  /\ pc[r] = "completion"
  /\ handler[r] \in StreamHandlers
  /\ Logged(r, <<"completeFail">>)
  /\ CatchAfterFlush(r)
  /\ UNCHANGED <<sessions, messages, handler, body, sessionId, aiResponse,
                 aiResponseFull, out, upstream, upState, frames, cutInFrame,
                 ttsResponse, overlapped, callStore, msgBy>>

\* Variant: aiResponseFull = content, keeping the last chunk's text only.
AccumulateLastChunk(full, fw) == Flatten(fw)

\* aiResponseFull += content, once per forwarded fragment of the chunk
Accumulate(full, fw) == full \o Flatten(fw)

\* The byte offsets of the wire at which a frame (with its blank line) ends.
FrameEnds(fs) == {Len(Wire(SubSeq(fs, 1, k))) : k \in 0..Len(fs)}

\* Variant: the upstream keeps delivering the bytes that were due after it
\* reported an error, and the 'data' listener handles them as before.
OnDataAfterClose(r) ==
  /\ pc[r] \in {"streaming", "done"}
  /\ upState[r] \in {"open", "errored"}
  /\ \E n \in 1..Len(upstream[r]) :
       LET chunk == SubSeq(upstream[r], 1, n)
           fw == OnChunk(chunk)
       IN  /\ upstream' =
                [upstream EXCEPT ![r] = SubSeq(@, n + 1, Len(@))]
           /\ out' = [out EXCEPT ![r] = @ \o MapDataFrame(fw)]
           /\ aiResponseFull' =
                [aiResponseFull EXCEPT ![r] =
                   IF handler[r] = "streamLog" THEN Accumulate(@, fw) ELSE @]
  /\ UNCHANGED <<sessions, messages, handler, body, pc, sessionId, aiResponse,
                 status, resJson, nEnd, upState, log, frames, cutInFrame,
                 ttsResponse, overlapped, callStore, msgBy>>

\* completion.data.on('data'): the next chunk, cut anywhere in the bytes.
OnData(r) ==
  /\ pc[r] = "streaming"
  /\ upState[r] = "open"
  /\ \E n \in 1..Len(upstream[r]) :
       LET chunk == SubSeq(upstream[r], 1, n)
           fw == OnChunk(chunk)
       IN  /\ upstream' =
                [upstream EXCEPT ![r] = SubSeq(@, n + 1, Len(@))]
           /\ out' = [out EXCEPT ![r] = @ \o MapDataFrame(fw)]
           /\ aiResponseFull' =
                [aiResponseFull EXCEPT ![r] =
                   IF handler[r] = "streamLog" THEN Accumulate(@, fw) ELSE @]
           /\ cutInFrame' =
                [cutInFrame EXCEPT ![r] =
                   @ \/ (Len(Wire(frames[r])) - Len(upstream[r]) + n)
                           \notin FrameEnds(frames[r])]
  /\ UNCHANGED <<sessions, messages, handler, body, pc, sessionId, aiResponse,
                 status, resJson, nEnd, upState, log, frames, ttsResponse,
                 overlapped, callStore, msgBy>>

\* completion.data.on('end'), up to its first await.
OnEnd(r) ==
  /\ pc[r] = "streaming"
  /\ upState[r] = "open"
  /\ upstream[r] = <<>>
  /\ upState' = [upState EXCEPT ![r] = "ended"]
  /\ IF handler[r] = "streamLog"
     THEN /\ Logged(r, <<"createAI">>)
          /\ pc' = [pc EXCEPT ![r] = "endMsg"]
          /\ UNCHANGED <<out, nEnd>>
     ELSE /\ out' = [out EXCEPT ![r] = Append(@, StreamDoneFrame)]
          /\ nEnd' = [nEnd EXCEPT ![r] = @ + 1]
          /\ pc' = [pc EXCEPT ![r] = "done"]
          /\ UNCHANGED log
  /\ UNCHANGED <<sessions, messages, handler, body, sessionId, aiResponse,
                 aiResponseFull, status, resJson, upstream, frames,
                 cutInFrame, ttsResponse, overlapped, callStore, msgBy>>

\* The 'end' listener of the logging variant resumes after its await.
EndCreateAIOk(r) ==
  /\ pc[r] = "endMsg"
  /\ messages' = CreateMessage(messages, sessionId[r], "AI", aiResponseFull[r])
  /\ msgBy' = Append(msgBy, r)
  /\ Logged(r, <<"createAIOk">>)
  /\ out' = [out EXCEPT ![r] = Append(@, StreamDoneFrame)]
  /\ nEnd' = [nEnd EXCEPT ![r] = @ + 1]
  /\ pc' = [pc EXCEPT ![r] = "done"]
  /\ UNCHANGED <<sessions, handler, body, sessionId, aiResponse,
                 aiResponseFull, status, resJson, upstream, upState, frames,
                 cutInFrame, ttsResponse, overlapped, callStore>>

\* The create rejects inside the async 'end' listener: nothing catches it,
\* the marker is not written and the response is not ended.
EndCreateAIFail(r) ==
  /\ pc[r] = "endMsg"
  /\ Logged(r, <<"createAIFail">>)
  /\ pc' = [pc EXCEPT ![r] = "hung"]
  /\ UNCHANGED <<sessions, messages, handler, body, sessionId, aiResponse,
                 aiResponseFull, status, resJson, out, nEnd, upstream,
                 upState, frames, cutInFrame, ttsResponse, overlapped,
                 callStore, msgBy>>

\* Variant: the 'error' listener finishes the way the 'end' listener does,
\* writing the completion marker before it ends the response.
OnErrorWithMarker(r) ==
  /\ pc[r] = "streaming"
  /\ upState[r] = "open"
  /\ upState' = [upState EXCEPT ![r] = "errored"]
  /\ out' = [out EXCEPT ![r] = Append(@, StreamDoneFrame)]
  /\ nEnd' = [nEnd EXCEPT ![r] = @ + 1]
  /\ pc' = [pc EXCEPT ![r] = "done"]
  /\ UNCHANGED <<sessions, messages, handler, body, sessionId, aiResponse,
                 aiResponseFull, status, resJson, upstream, log, frames,
                 cutInFrame, ttsResponse, overlapped, callStore, msgBy>>

\* completion.data.on('error'): res.end()
OnError(r) ==
  /\ pc[r] = "streaming"
  /\ upState[r] = "open"
  /\ upState' = [upState EXCEPT ![r] = "errored"]
  /\ nEnd' = [nEnd EXCEPT ![r] = @ + 1]
  /\ pc' = [pc EXCEPT ![r] = "done"]
  /\ UNCHANGED <<sessions, messages, handler, body, sessionId, aiResponse,
                 aiResponseFull, status, resJson, out, upstream, log, frames,
                 cutInFrame, ttsResponse, overlapped, callStore, msgBy>>

\* -------------------------------------------------------------------- /tts
TtsBodies ==
  [text : {Undefined, Some(<<>>), Some(<<"A">>)},
   voice : {Undefined, Some("alloy")}]

\* The statuses the speech API answers with.
TtsStatuses == {OK200, BadRequest400, 401, 429, ServerError500}

\* Response.ok of fetch: the status is in the range 200-299
ResponseOk(st) == st \in 200..299

\* /tts arrives: the handler runs up to its first await.
TtsReceive(r) ==
  /\ pc[r] = "idle"
  /\ \E b \in TtsBodies :
       /\ handler' = [handler EXCEPT ![r] = "tts"]
       /\ body' = [body EXCEPT ![r] = b]
       /\ IF ~Truthy(b.text)
          THEN /\ RespondError(r, BadRequest400)
               /\ UNCHANGED log
          ELSE /\ Logged(r, <<"fetch">>)
               /\ pc' = [pc EXCEPT ![r] = "ttsFetch"]
               /\ UNCHANGED <<status, resJson, nEnd>>
  /\ UNCHANGED <<sessions, messages, sessionId, aiResponse, aiResponseFull,
                 out, upstream, upState, frames, cutInFrame, ttsResponse,
                 overlapped, callStore, msgBy>>

\* Variant: every answer of the speech API that is not a success is
\* reported to the caller as a server error.
TtsFetchOkAs500(r) ==
  /\ pc[r] = "ttsFetch"
  /\ \E st \in TtsStatuses :
       /\ ttsResponse' = [ttsResponse EXCEPT ![r] = st]
       /\ IF ~ResponseOk(st)
          THEN RespondError(r, ServerError500)
          ELSE /\ pc' = [pc EXCEPT ![r] = "ttsBody"]
               /\ UNCHANGED <<status, resJson, nEnd>>
  /\ Logged(r, <<"fetchOk">>)
  /\ UNCHANGED <<sessions, messages, handler, body, sessionId, aiResponse,
                 aiResponseFull, out, upstream, upState, frames, cutInFrame,
                 overlapped, callStore, msgBy>>

\* fetch resolves with the speech API's answer, whatever its status.
TtsFetchOk(r) ==
  /\ pc[r] = "ttsFetch"
  /\ \E st \in TtsStatuses :
       /\ ttsResponse' = [ttsResponse EXCEPT ![r] = st]
       /\ IF ~ResponseOk(st)
          THEN RespondError(r, st)
          ELSE /\ pc' = [pc EXCEPT ![r] = "ttsBody"]
               /\ UNCHANGED <<status, resJson, nEnd>>
  /\ Logged(r, <<"fetchOk">>)
  /\ UNCHANGED <<sessions, messages, handler, body, sessionId, aiResponse,
                 aiResponseFull, out, upstream, upState, frames, cutInFrame,
                 overlapped, callStore, msgBy>>

\* fetch rejects: no answer was received.
TtsFetchFail(r) ==
  /\ pc[r] = "ttsFetch"
  /\ Logged(r, <<"fetchFail">>)
  /\ Catch500(r)
  /\ UNCHANGED <<sessions, messages, handler, body, sessionId, aiResponse,
                 aiResponseFull, out, upstream, upState, frames, cutInFrame,
                 ttsResponse, overlapped, callStore, msgBy>>

\* arrayBuffer() resolves: the audio is sent as audio/mpeg.
TtsBodyOk(r) ==
  /\ pc[r] = "ttsBody"
  /\ Logged(r, <<"bodyOk">>)
  /\ status' = [status EXCEPT ![r] = OK200]
  /\ resJson' =
       [resJson EXCEPT ![r] = [kind |-> "audio/mpeg", aiResponse |-> <<>>]]
  /\ nEnd' = [nEnd EXCEPT ![r] = @ + 1]
  /\ pc' = [pc EXCEPT ![r] = "done"]
  /\ UNCHANGED <<sessions, messages, handler, body, sessionId, aiResponse,
                 aiResponseFull, out, upstream, upState, frames, cutInFrame,
                 ttsResponse, overlapped, callStore, msgBy>>

\* arrayBuffer() rejects: the answer's body could not be read.
TtsBodyFail(r) ==
  /\ pc[r] = "ttsBody"
  /\ Logged(r, <<"bodyFail">>)
  /\ Catch500(r)
  /\ UNCHANGED <<sessions, messages, handler, body, sessionId, aiResponse,
                 aiResponseFull, out, upstream, upState, frames, cutInFrame,
                 ttsResponse, overlapped, callStore, msgBy>>

\* --------------------------------------------------------- specifications
Step(r, H, B, S) ==
  \/ Receive(r, H, B)
  \/ SelectOk(r)
  \/ SelectFail(r)
  \/ CreateSessionOk(r)
  \/ CreateSessionFail(r)
  \/ CreateUserOk(r)
  \/ CreateUserFail(r)
  \/ VoiceCompleteOk(r)
  \/ VoiceCompleteFail(r)
  \/ VoiceCreateAIOk(r)
  \/ VoiceCreateAIFail(r)
  \/ StreamCompleteOk(r, S)
  \/ StreamCompleteFail(r)
  \/ OnData(r)
  \/ OnEnd(r)
  \/ EndCreateAIOk(r)
  \/ EndCreateAIFail(r)
  \/ OnError(r)

\* Concurrent requests on all routes, each stream a short fixed answer.
Next == \E r \in Reqs : Step(r, Handlers, Bodies, FlowStreams)
Spec == Init /\ [][Next]_vars

\* One /stream-chat request, its upstream sending any frame sequence.
StepRelay(r) ==
  \/ Receive(r, StreamHandlers, RelayBodies)
  \/ SelectOk(r)
  \/ SelectFail(r)
  \/ CreateSessionOk(r)
  \/ CreateSessionFail(r)
  \/ CreateUserOk(r)
  \/ CreateUserFail(r)
  \/ StreamCompleteOk(r, RelayStreams)
  \/ StreamCompleteFail(r)
  \/ OnData(r)
  \/ OnEnd(r)
  \/ EndCreateAIOk(r)
  \/ EndCreateAIFail(r)
  \/ OnError(r)

NextRelay == StepRelay(1)
SpecRelay == Init /\ [][NextRelay]_vars

\* Concurrent requests on /tts, which shares no state with the chat routes.
StepTts(r) ==
  \/ TtsReceive(r)
  \/ TtsFetchOk(r)
  \/ TtsFetchFail(r)
  \/ TtsBodyOk(r)
  \/ TtsBodyFail(r)

NextTts == \E r \in Reqs : StepTts(r)
SpecTts == Init /\ [][NextTts]_vars

\* ================================================================ claims
\* The message records request r created, in creation order.
RECURSIVE OwnedFrom(_, _)
OwnedFrom(r, i) ==
  IF i > Len(messages) THEN <<>>
  ELSE (IF msgBy[i] = r THEN <<messages[i]>> ELSE <<>>) \o OwnedFrom(r, i + 1)

Owned(r) == OwnedFrom(r, 1)

\* rec is a session of the pair of body b: both cells read exactly the text
\* the request's ids are written as.
SessionIsFor(rec, b) ==
  /\ CellText(rec.Stakeholder) = Interpolate(b.stakeholderID)
  /\ CellText(rec.ProjectID) = Interpolate(b.projectID)

HoldsSessionFor(tbl, b) == \E i \in 1..Len(tbl) : SessionIsFor(tbl[i], b)

C2_ResolveCreatesOne ==
  [][\A r \in Reqs :
       (/\ InResolve(r)
        /\ pc'[r] = "userMsg"
        /\ ~overlapped[r]
        /\ ~HoldsSessionFor(callStore[r], body[r])) =>
         /\ sessions' =
              Append(callStore[r],
                     [Stakeholder |-> body[r].stakeholderID,
                      ProjectID |-> body[r].projectID,
                      Session_Status |-> "In Progress"])
         /\ sessionId'[r] = Len(sessions')
         /\ Count(log'[r], "createSession") = 1]_vars

C2_Witness ==
  \E r \in Reqs :
    /\ pc[r] = "userMsg"
    /\ ~overlapped[r]
    /\ callStore[r] # <<>>
    /\ ~HoldsSessionFor(callStore[r], body[r])
    /\ Count(log[r], "createSessionOk") = 1
    /\ sessions = Append(callStore[r], sessions[sessionId[r]])
    /\ SessionIsFor(sessions[sessionId[r]], body[r])

\* C3: when the select of a resolve is answered from a store that holds a
\* session of its pair, the resolve returns the id of a stored session of
\* that pair, and the resolve neither adds nor changes a session record.
C3_ResolveReusesExisting ==
  [][\A r \in Reqs :
       (/\ pc[r] = "query"
        /\ pc'[r] \notin {"query", "done"}
        /\ HoldsSessionFor(sessions, body[r])) =>
         /\ pc'[r] = "userMsg"
         /\ sessionId'[r] \in 1..Len(sessions)
         /\ SessionIsFor(sessions[sessionId'[r]], body[r])
         /\ sessions' = sessions
         /\ Count(log'[r], "createSession") = 0]_vars

C3_Witness ==
  \E r, q \in Reqs :
    /\ r # q
    /\ Count(log[q], "createSessionOk") = 1
    /\ pc[r] = "userMsg"
    /\ Count(log[r], "createSession") = 0
    /\ sessionId[r] = sessionId[q]
    /\ HoldsSessionFor(callStore[r], body[r])
    /\ Len(sessions) = 1
    /\ SessionIsFor(sessions[1], body[r])

\* Two requests of one pair that both created a session hold different ids,
\* each of a stored record of the pair.
C4_RaceState ==
  \A r1, r2 \in Reqs :
    (/\ r1 # r2
     /\ Count(log[r1], "createSessionOk") = 1
     /\ Count(log[r2], "createSessionOk") = 1
     /\ body[r1].stakeholderID = body[r2].stakeholderID
     /\ body[r1].projectID = body[r2].projectID) =>
       /\ sessionId[r1] # sessionId[r2]
       /\ {sessionId[r1], sessionId[r2]} \subseteq 1..Len(sessions)
       /\ sessions[sessionId[r1]] = sessions[sessionId[r2]]

\* Every pair of equal session records is still there, unchanged, after
\* the step.
C4_DuplicateKept ==
  \A i, j \in 1..Len(sessions) :
    (i < j /\ sessions[i] = sessions[j]) =>
      /\ Len(sessions') >= j
      /\ sessions'[i] = sessions[i]
      /\ sessions'[j] = sessions[j]

\* C4: two requests of one pair can both create a session, each then holds
\* the id of its own record, so the store holds two records of the pair;
\* and no step removes, merges or changes either record of a duplicate.
C4_DuplicateSessions == [](C4_RaceState) /\ [][C4_DuplicateKept]_vars

C4_Witness ==
  \E r1, r2 \in Reqs :
    /\ r1 # r2
    /\ body[r1].stakeholderID = Some("s1")
    /\ body[r1].stakeholderID = body[r2].stakeholderID
    /\ body[r1].projectID = body[r2].projectID
    /\ overlapped[r1] /\ overlapped[r2]
    /\ callStore[r1] = <<>> /\ callStore[r2] = <<>>
    /\ Count(log[r1], "createSessionOk") = 1
    /\ Count(log[r2], "createSessionOk") = 1
    /\ Cardinality(Matching(sessions, body[r1].stakeholderID,
                            body[r1].projectID)) = 2
    /\ pc[r1] = "done" /\ pc[r2] = "done"
    /\ status[r1] = OK200 /\ status[r2] = OK200

UserMessageOf(r) ==
  [interview_session |-> <<sessionId[r]>>, Sender |-> "User",
   Message_text |-> Get(body[r].userMessage)]

\* The order of one request's calls: every completion call comes after a
\* successful 'User' create that is already in the store, every 'AI' create
\* after a successful completion, and a failed resolve or a failed 'User'
\* create means no completion call.
OrderedCalls(r) ==
  /\ \A i \in 1..Len(log[r]) :
       /\ log[r][i] = "complete" =>
            /\ \E j \in 1..(i - 1) : log[r][j] = "createUserOk"
            /\ Owned(r) # <<>>
            /\ Owned(r)[1] = UserMessageOf(r)
       /\ log[r][i] = "createAI" =>
            \E j, k \in 1..(i - 1) :
              /\ j < k
              /\ log[r][j] = "complete"
              /\ log[r][k] = "completeOk"
       /\ log[r][i] = "createAIOk" =>
            /\ Len(Owned(r)) = 2
            /\ Owned(r)[2].Sender = "AI"
  /\ (\E e \in {"selectFail", "createSessionFail", "createUserFail"} :
        Count(log[r], e) > 0) => Count(log[r], "complete") = 0

\* C5 as stated, for every chat request: the 'User' write, then the
\* completion call, then the 'AI' write; no completion call without a
\* successful 'User' write before it.
C5_OrderEveryRequest == \A r \in Reqs : OrderedCalls(r)

\* C5, amended: the order holds for every request on /voice-chat and on the
\* logging /stream-chat; the /stream-chat handler that keeps no transcript
\* calls the completion API with no message write at all.
C5_OrderLoggedRequests ==
  \A r \in Reqs :
    /\ handler[r] \in {"voice", "streamLog"} => OrderedCalls(r)
    /\ handler[r] = "streamNoLog" => Owned(r) = <<>>

C5_Witness ==
  \E r1, r2 \in Reqs :
    /\ handler[r1] = "voice" /\ handler[r2] = "streamLog"
    /\ pc[r1] = "done" /\ pc[r2] = "done"
    /\ Count(log[r1], "createAIOk") = 1
    /\ Count(log[r2], "createAIOk") = 1

\* C6: a /voice-chat request whose completion call failed is answered 500,
\* once; the completion was called once; no 'AI' create was issued; the one
\* message record the request has created is its 'User' message.
C6_VoiceCompletionFailure ==
  \A r \in Reqs :
    (/\ handler[r] = "voice"
     /\ Count(log[r], "completeFail") + Count(log[r], "completeNoChoices") > 0)
      =>
      /\ pc[r] = "done"
      /\ status[r] = ServerError500
      /\ resJson[r].kind = "error"
      /\ nEnd[r] = 1
      /\ Count(log[r], "complete") = 1
      /\ Count(log[r], "createAI") = 0
      /\ Owned(r) = <<UserMessageOf(r)>>

C6_Witness ==
  \E r \in Reqs :
    /\ handler[r] = "voice"
    /\ Count(log[r], "completeFail") = 1
    /\ status[r] = ServerError500
    /\ Len(messages) = 1

\* C7: /voice-chat answers 200 {aiResponse} only when the session is
\* resolved and the request's 'User' and 'AI' messages are both stored,
\* linked to that session; when the 'AI' create fails the answer is 500
\* and carries no aiResponse.
C7_VoiceSuccessMeansLogged ==
  \A r \in Reqs :
    handler[r] = "voice" =>
      /\ (status[r] = OK200 \/ resJson[r].kind = "aiResponse") =>
           /\ status[r] = OK200
           /\ resJson[r] = [kind |-> "aiResponse", aiResponse |-> aiResponse[r]]
           /\ sessionId[r] \in 1..Len(sessions)
           /\ Count(log[r], "selectOk") = 1
           /\ Owned(r) =
                <<UserMessageOf(r),
                  [interview_session |-> <<sessionId[r]>>, Sender |-> "AI",
                   Message_text |-> aiResponse[r]]>>
      /\ Count(log[r], "createAIFail") > 0 =>
           /\ pc[r] = "done"
           /\ status[r] = ServerError500
           /\ resJson[r] = [kind |-> "error", aiResponse |-> <<>>]
           /\ Owned(r) = <<UserMessageOf(r)>>

C7_Witness ==
  \E r1, r2 \in Reqs :
    /\ handler[r1] = "voice" /\ handler[r2] = "voice"
    /\ status[r1] = OK200
    /\ Count(log[r2], "createAIFail") = 1
    /\ aiResponse[r2] # <<>>

\* ------------------------------------------------------------ the relay
IsContentFrame(f) == \E c \in Contents : c # <<>> /\ f = DeltaFrame(c)

\* The fragments of the frames that carry one, in frame order.
RECURSIVE Fragments(_)
Fragments(fs) ==
  IF fs = <<>> THEN <<>>
  ELSE (IF IsContentFrame(Head(fs))
        THEN <<SubSeq(Head(fs), 3, Len(Head(fs)) - 1)>>
        ELSE <<>>) \o Fragments(Tail(fs))

\* Frames that each carry a non-empty fragment, then the sentinel frame.
FragmentsThenSentinel(fs) ==
  /\ Len(fs) >= 2
  /\ fs[Len(fs)] = SentinelFrame
  /\ \A i \in 1..(Len(fs) - 1) : IsContentFrame(fs[i])

\* C8: after fragment frames, the sentinel and upstream end, the caller has
\* received one data frame per fragment, in order, then the marker, and
\* nothing else.
C8_RelayExact ==
  \A r \in Reqs :
    (/\ pc[r] = "done"
     /\ upState[r] = "ended"
     /\ FragmentsThenSentinel(frames[r])) =>
       out[r] = MapDataFrame(Fragments(frames[r])) \o <<StreamDoneFrame>>

\* C9: a stream with a frame that fails to parse still delivers every
\* fragment of its valid frames, once each and in order, and the marker at
\* upstream end.
C9_MalformedSkipped ==
  \A r \in Reqs :
    (/\ pc[r] \in {"done", "hung"}
     /\ upState[r] = "ended"
     /\ \E i \in 1..Len(frames[r]) : frames[r][i] = MalformedFrame) =>
       out[r] = MapDataFrame(Fragments(frames[r])) \o <<StreamDoneFrame>>

\* C10: once the upstream has ended and the 'end' listener has run, the
\* marker is in the output exactly once, as its last frame, and the
\* response is ended.
C10_MarkerAtEnd ==
  \A r \in Reqs :
    (pc[r] \in {"done", "hung"} /\ upState[r] = "ended") =>
      /\ Count(out[r], StreamDoneFrame) = 1
      /\ out[r][Len(out[r])] = StreamDoneFrame
      /\ nEnd[r] = 1

\* ------------------------------------------------------------------- C11
\* C11: when the upstream stream of a /stream-chat request reports an error,
\* the response is ended in that same step, and the output of the request
\* never holds the completion marker: what was written before the error is
\* all the client gets.
C11_ErrorClosesWithoutMarker ==
  /\ [](\A r \in Reqs :
         upState[r] = "errored" =>
           /\ handler[r] \in StreamHandlers
           /\ nEnd[r] = 1
           /\ pc[r] = "done"
           /\ Count(out[r], StreamDoneFrame) = 0)
  /\ [][\A r \in Reqs :
         (upState[r] # "errored" /\ upState'[r] = "errored") =>
           /\ nEnd[r] = 0
           /\ nEnd'[r] = 1
           /\ out'[r] = out[r]]_vars

\* An upstream error arrived after a fragment had been forwarded and while
\* bytes were still due.
C11_Witness ==
  \E r \in Reqs :
    /\ upState[r] = "errored"
    /\ out[r] # <<>>
    /\ upstream[r] # <<>>
    /\ nEnd[r] = 1

\* ------------------------------------------------------------------- C12
\* The state of the relay of one request, read off the upstream and the
\* output: CLOSING is the 'end' listener of the logging handler between the
\* upstream's end and the marker.
RelayState(up, o) ==
  CASE up = "none" -> "IDLE"
    [] up = "open" -> "STREAMING"
    [] up = "errored" -> "ERROR"
    [] up = "ended" ->
         IF Count(o, StreamDoneFrame) > 0 THEN "DONE" ELSE "CLOSING"

RelayMoves ==
  {<<"IDLE", "STREAMING">>, <<"STREAMING", "DONE">>,
   <<"STREAMING", "CLOSING">>, <<"CLOSING", "DONE">>,
   <<"STREAMING", "ERROR">>}

Creates(q) == Count(q, "createUserOk") + Count(q, "createAIOk")

\* The record a call of request r that succeeds in this step was made for.
CallRecord(r) ==
  [interview_session |-> <<sessionId[r]>>,
   Sender |-> IF pc[r] = "userMsg" THEN "User" ELSE "AI",
   Message_text |->
     IF pc[r] = "userMsg" THEN Get(body[r].userMessage)
     ELSE IF handler[r] = "voice" THEN aiResponse[r]
     ELSE aiResponseFull[r]]

\* The records linked to session id sid, in store order.
RECURSIVE LinkedFrom(_, _)
LinkedFrom(sid, i) ==
  IF i > Len(messages) THEN <<>>
  ELSE (IF messages[i].interview_session = <<sid>>
        THEN <<messages[i]>> ELSE <<>>) \o LinkedFrom(sid, i + 1)

\* C13: every createMessageRecord call that succeeds adds exactly one
\* record, linked to the session id of the call and carrying the call's
\* sender and text, after all records already stored; a step without a
\* successful call adds none. So N successful calls for one session id leave
\* N records of that session, in call order.
C13_CreateAddsOneInOrder ==
  /\ [](/\ Len(messages) = Len(msgBy)
        /\ \A r \in Reqs : Len(Owned(r)) = Creates(log[r]))
  /\ [][\A r \in Reqs :
         /\ Creates(log'[r]) - Creates(log[r]) \in {0, 1}
         /\ Creates(log'[r]) = Creates(log[r]) + 1 =>
              /\ messages' = Append(messages, CallRecord(r))
              /\ LinkedFrom(sessionId[r], 1)' =
                   Append(LinkedFrom(sessionId[r], 1), CallRecord(r))]_vars
  /\ [][(\A r \in Reqs : Creates(log'[r]) = Creates(log[r])) =>
         messages' = messages]_vars

\* Four successful calls for one session id, two by each of two requests
\* that ran one after the other, left four records of that session in call
\* order.
C13_Witness ==
  \E r, q \in Reqs :
    /\ r # q
    /\ sessionId[r] = sessionId[q]
    /\ msgBy = <<r, r, q, q>>
    /\ LinkedFrom(sessionId[r], 1) = Owned(r) \o Owned(q)
    /\ Owned(r)[1].Sender = "User" /\ Owned(r)[2].Sender = "AI"
    /\ Owned(q)[1].Sender = "User" /\ Owned(q)[2].Sender = "AI"

\* ------------------------------------------------------------------- C14
\* tbl2 is tbl with records added after it and nothing else changed.
Extends(tbl2, tbl) ==
  /\ Len(tbl2) >= Len(tbl)
  /\ SubSeq(tbl2, 1, Len(tbl)) = tbl

\* C14: no step removes or changes a record: after every step both tables
\* are what they were, with at most new records after the old ones; and the
\* status of every session in the store is 'In Progress', always.
C14_AppendOnly ==
  /\ [](\A i \in 1..Len(sessions) :
         sessions[i].Session_Status = "In Progress")
  /\ [][/\ Extends(sessions', sessions)
        /\ Extends(messages', messages)
        /\ Len(sessions') - Len(sessions) \in {0, 1}
        /\ Len(messages') - Len(messages) \in {0, 1}]_vars

\* Both requests ran to their end against a store that then holds two
\* sessions and four messages.
C14_Witness ==
  /\ Len(sessions) = 2
  /\ Len(messages) = 4
  /\ \A r \in Reqs : pc[r] = "done" /\ Creates(log[r]) = 2

\* ------------------------------------------------------------------- C15
\* C15: a /tts request without text is answered 400 and has made no call
\* to the speech API; when the speech API answered with a status that is not
\* a success, the response carries that status and is not audio; and a
\* response is audio/mpeg only when the speech API answered with a success
\* and the answer's body was read.
C15_TtsErrors ==
  \A r \in Reqs :
    handler[r] = "tts" =>
      /\ ~Truthy(body[r].text) =>
           /\ pc[r] = "done"
           /\ status[r] = BadRequest400
           /\ nEnd[r] = 1
           /\ log[r] = <<>>
           /\ ttsResponse[r] = 0
      /\ (ttsResponse[r] # 0 /\ ~ResponseOk(ttsResponse[r])) =>
           /\ pc[r] = "done"
           /\ status[r] = ttsResponse[r]
           /\ nEnd[r] = 1
           /\ resJson[r].kind # "audio/mpeg"
           /\ Count(log[r], "bodyOk") = 0
      /\ resJson[r].kind = "audio/mpeg" =>
           /\ ResponseOk(ttsResponse[r])
           /\ log[r] = <<"fetch", "fetchOk", "bodyOk">>
           /\ status[r] = OK200
           /\ nEnd[r] = 1

\* One request without text was refused while another got the speech
\* API's 429 passed on.
C15_Witness ==
  \E r, q \in Reqs :
    /\ handler[r] = "tts" /\ handler[q] = "tts"
    /\ body[r].text = Undefined /\ status[r] = BadRequest400
    /\ ttsResponse[q] = 429 /\ status[q] = 429 /\ pc[q] = "done"

\* ------------------------------------------------------------------- C16
SamePair(b1, b2) ==
  b1.stakeholderID = b2.stakeholderID /\ b1.projectID = b2.projectID

\* C16: every message record is linked to exactly one session id, the id
\* the resolve of the request that created it returned; that session is a
\* stored record carrying the request's own pair; and the record is linked
\* to no session that a request of a different pair resolved.
C16_LinkedToOwnSession ==
  \A i \in 1..Len(messages) :
    LET r == msgBy[i]
    IN  /\ handler[r] \in {"voice", "streamLog"}
        /\ Len(messages[i].interview_session) = 1
        /\ messages[i].interview_session = <<sessionId[r]>>
        /\ sessionId[r] \in 1..Len(sessions)
        /\ sessions[sessionId[r]].Stakeholder = body[r].stakeholderID
        /\ sessions[sessionId[r]].ProjectID = body[r].projectID
        /\ \A q \in Reqs :
             (sessionId[q] # 0 /\ ~SamePair(body[q], body[r])) =>
               messages[i].interview_session # <<sessionId[q]>>

\* Two requests of different pairs ran interleaved, one on each logging
\* handler, and each wrote both its messages.
C16_Witness ==
  \E r, q \in Reqs :
    /\ handler[r] = "voice" /\ handler[q] = "streamLog"
    /\ ~SamePair(body[r], body[q])
    /\ overlapped[r] /\ overlapped[q]
    /\ msgBy = <<r, q, r, q>>
    /\ sessionId[r] # sessionId[q]

\* ------------------------------------------------------------------- C17
\* A request in "done" or "hung" takes no further step: whatever its
\* response has not received by then, it never receives.
AtRest(r) == pc[r] \in {"done", "hung"}

\* C17: a /stream-chat request that passed validation never has its
\* response ended twice, and once it can take no further step its response
\* has been ended, on every path.
C17_EndedExactlyOnce ==
  \A r \in Reqs :
    (handler[r] \in StreamHandlers /\ ~NoUserMessage(body[r])) =>
      /\ nEnd[r] <= 1
      /\ AtRest(r) => nEnd[r] = 1

\* ------------------------------------------------------------------- C18
IsAI(m) == m.Sender = "AI"

\* The 'AI' records request r created.
AiOf(r) == SelectSeq(Owned(r), IsAI)

IsFragmentFrame(f) == f # StreamDoneFrame

\* The text the caller of request r was sent: the fragments of the data
\* frames written so far, one after the other, without the marker.
RECURSIVE ForwardedText(_)
ForwardedText(o) ==
  IF o = <<>> THEN <<>>
  ELSE (IF IsFragmentFrame(Head(o))
        THEN SubSeq(Head(o), 2, Len(Head(o)) - 2)
        ELSE <<>>) \o ForwardedText(Tail(o))

\* C18: on the logging handler a request has at most one 'AI' record; the
\* create is issued only once the upstream has ended, and the marker is
\* written only after the record exists; the record's text is the
\* concatenation, in order, of exactly the fragments forwarded to the
\* caller; and a request whose upstream errored has its 'User' record and
\* no 'AI' record.
C18_AiTranscript ==
  \A r \in Reqs :
    handler[r] = "streamLog" =>
      /\ aiResponseFull[r] = ForwardedText(out[r])
      /\ Len(AiOf(r)) <= 1
      /\ Count(log[r], "createAI") <= 1
      /\ Count(log[r], "createAI") = 1 => upState[r] = "ended"
      /\ Len(AiOf(r)) = 1 =>
           /\ upState[r] = "ended"
           /\ upstream[r] = <<>>
           /\ Owned(r) =
                <<UserMessageOf(r),
                  [interview_session |-> <<sessionId[r]>>, Sender |-> "AI",
                   Message_text |-> ForwardedText(out[r])]>>
      /\ Count(out[r], StreamDoneFrame) > 0 => Len(AiOf(r)) = 1
      /\ upState[r] = "errored" =>
           /\ Count(log[r], "createAI") = 0
           /\ Owned(r) = <<UserMessageOf(r)>>

\* Two fragments were forwarded in two chunks, the upstream ended, and the
\* 'AI' record holds both, in order, before the marker.
C18_Witness ==
  \E r \in Reqs :
    /\ handler[r] = "streamLog"
    /\ out[r] = <<DataFrame(<<"A">>), DataFrame(<<"B">>), StreamDoneFrame>>
    /\ Len(AiOf(r)) = 1
    /\ AiOf(r)[1].Message_text = <<"A", "B">>
    /\ ~cutInFrame[r]

\* ------------------------------------------------------------------- C19
\* The fragments of the data frames written to the caller, in order.
RECURSIVE OutFragments(_)
OutFragments(o) ==
  IF o = <<>> THEN <<>>
  ELSE (IF IsFragmentFrame(Head(o))
        THEN <<SubSeq(Head(o), 2, Len(Head(o)) - 2)>>
        ELSE <<>>) \o OutFragments(Tail(o))

\* All bytes of the upstream of request r were delivered.
Delivered(r) ==
  /\ handler[r] \in StreamHandlers
  /\ upState[r] \in {"open", "ended"}
  /\ frames[r] # <<>>
  /\ upstream[r] = <<>>

\* C19: once all bytes of a frame sequence were delivered, the fragments
\* written to the caller are those the relay writes when the same bytes
\* arrive as one chunk, however the bytes were cut into chunks.
C19_ChunkingIrrelevant ==
  \A r \in Reqs :
    Delivered(r) => OutFragments(out[r]) = OnChunk(Wire(frames[r]))

\* The same, for the deliveries in which every chunk ended where a frame
\* ends.
C19_WholeFrameChunks ==
  \A r \in Reqs :
    (Delivered(r) /\ ~cutInFrame[r]) =>
      OutFragments(out[r]) = OnChunk(Wire(frames[r]))

\* ------------------------------------------------------------------- C20
\* C20: when the frames arrived whole, the caller was sent the fragment of
\* every well-formed frame that carries a non-empty one, the fragment
\* '[DONE]' included, in order, and nothing for the sentinel frame, for
\* frames without content and for malformed frames.
C20_OnlySentinelDropped ==
  \A r \in Reqs :
    (Delivered(r) /\ ~cutInFrame[r]) =>
      OutFragments(out[r]) = Fragments(frames[r])

\* The same, for the frame sequences in which no fragment is '[DONE]'.
C20_NoDoneInFragments ==
  \A r \in Reqs :
    (/\ Delivered(r)
     /\ ~cutInFrame[r]
     /\ \A i \in 1..Len(frames[r]) : frames[r][i] # DeltaFrame(<<"DONE">>)) =>
      OutFragments(out[r]) = Fragments(frames[r])

====
